---------------------------- MODULE Spec2Model ----------------------------
(***************************************************************************)
(* A model of the shared data models of CustomMatPlot (cmp_datamodels.h)   *)
(* and of the PlotLabel component (spl_label.h):                           *)
(*   - Marker::getMarkerPathFrom, in IEEE-754 binary32 arithmetic          *)
(*   - Lim<ValueType> and its operators, for a bounded integer ValueType   *)
(*   - the construction of a CommonPlotParameterView                       *)
(*   - PlotLabel's label texts                                             *)
(*   - the two iota_delta overloads                                        *)
(* Each component has its own initial predicate and next-state relation    *)
(* over the module's variables; Spec is their union.                       *)
(***************************************************************************)
EXTENDS Integers, Sequences, FiniteSets, TLC

VARIABLES
  unit,       \* which component this behaviour exercises
  \* Marker::getMarkerPathFrom
  marker,     \* the caller's Marker object (its type field)
  length,     \* the float passed as length
  path,       \* the juce::Path returned by getMarkerPathFrom
  called,     \* whether getMarkerPathFrom has returned
  \* Lim<ValueType>
  lim,        \* the Lim object l: [min, max]
  arg,        \* the last operation on l: its name, l before it, its operand
  res,        \* what the last operation produced
  \* CommonPlotParameterView
  cats,       \* the value category of each constructor argument
  alive,      \* whether the object each argument denotes still exists
  vstate,     \* start, rejected, constructed, expr_ended, read
  \* PlotLabel
  labels,     \* the texts of m_x_label, m_y_label, m_title_label
  shown,      \* the text last painted for each label (NotPainted before)
  m_lookandfeel, \* whether the look-and-feel pointer has been fetched
  laid_out,   \* whether resized() has laid the labels out
  last_x,     \* the argument of the last setXLabel (NotSet before)
  painted,    \* whether paint ran since the last setXLabel
  \* iota_delta
  mem,        \* the memory around the range, guard cells included
  first,      \* the iterator first
  x0,         \* the accumulator x0
  inp,        \* the call's arguments: n, x0, dx, f
  calls,      \* the arguments f was called with, in order
  ipc         \* loop, done

markerVars == <<marker, length, path, called>>
limVars == <<lim, arg, res>>
viewVars == <<cats, alive, vstate>>
labelVars == <<labels, shown, m_lookandfeel, laid_out, last_x, painted>>
iotaVars == <<mem, first, x0, inp, calls, ipc>>

vars == <<unit, markerVars, limVars, viewVars, labelVars, iotaVars>>

(***************************************************************************)
(* Bounds of the model.                                                    *)
(***************************************************************************)
MaxLength == 8       \* lengths are the integers -MaxLength..MaxLength
MaxTypeValue == 8    \* marker types are the ints -1..MaxTypeValue
Bits == 3            \* the width of the integer ValueType
MaxText == 1         \* label texts are 0 (the empty string) .. MaxText
MaxN == 3            \* iota_delta ranges hold 0..MaxN elements

(***************************************************************************)
(* IEEE-754 binary32 ("float") arithmetic, round to nearest even.  A float *)
(* is a record [s, m, e] of value (-1)^s * m * 2^e, with m = 0 (zero) or   *)
(* 2^23 <= m < 2^24.  Only the normal range is modelled: no subnormal, no  *)
(* infinity, no NaN, and one zero.  Each operation rounds once, as a build *)
(* that evaluates float expressions in float and does not contract a       *)
(* product and a sum into one fused operation.                             *)
(***************************************************************************)
RECURSIVE Pow2(_)
Pow2(n) == IF n = 0 THEN 1 ELSE 2 * Pow2(n - 1)

RECURSIVE BitLen(_)
BitLen(n) == IF n = 0 THEN 0 ELSE 1 + BitLen(n \div 2)

MantBits == 24

FZero == [s |-> 0, m |-> 0, e |-> 0]

F(s, m, e) == [s |-> s, m |-> m, e |-> e]

\* The float nearest to S * 2^E (ties to even), S an integer below 2^30 whose
\* lowest bit may be a sticky bit when more than MantBits + 1 bits are used.
FRound(s, S, E) ==
  IF S = 0 THEN FZero
  ELSE LET k == BitLen(S) IN
       IF k <= MantBits
       THEN F(s, S * Pow2(MantBits - k), E - (MantBits - k))
       ELSE LET r    == k - MantBits
                q    == S \div Pow2(r)
                rem  == S % Pow2(r)
                half == Pow2(r - 1)
                up   == rem > half \/ (rem = half /\ q % 2 = 1)
                q2   == IF up THEN q + 1 ELSE q
            IN IF q2 = Pow2(MantBits)
               THEN F(s, Pow2(MantBits - 1), E + r + 1)
               ELSE F(s, q2, E + r)

\* static_cast<float>(n) of a small integer n
IntToFloat(n) == IF n < 0 THEN FRound(1, -n, 0) ELSE FRound(0, n, 0)

FNeg(a) == IF a.m = 0 THEN a ELSE F(1 - a.s, a.m, a.e)

FAbs(a) == F(0, a.m, IF a.m = 0 THEN 0 ELSE a.e)

\* a * 2^k, exact (a / 2.0f is FScale(a, -1))
FScale(a, k) == IF a.m = 0 THEN a ELSE F(a.s, a.m, a.e + k)

\* |a| <= |b|
FMagLe(a, b) ==
  \/ a.m = 0
  \/ b.m # 0 /\ (a.e < b.e \/ (a.e = b.e /\ a.m <= b.m))

\* a <= b
FLe(a, b) ==
  IF a.m = 0 THEN b.m = 0 \/ b.s = 0
  ELSE IF b.m = 0 THEN a.s = 1
  ELSE IF a.s # b.s THEN a.s = 1
  ELSE IF a.s = 0 THEN FMagLe(a, b) ELSE FMagLe(b, a)

FLt(a, b) == ~FLe(b, a)

\* The float product: the 48-bit product of the mantissas from 12-bit limbs,
\* its top bits kept with a sticky bit, rounded once.
FMul(a, b) ==
  IF a.m = 0 \/ b.m = 0 THEN FZero
  ELSE LET L   == Pow2(12)
           a1  == a.m \div L
           a0  == a.m % L
           b1  == b.m \div L
           b0  == b.m % L
           hi  == a1 * b1
           mid == a1 * b0 + a0 * b1
           lo  == a0 * b0
           low == (mid % L) * L + lo
           PH  == hi + (mid \div L) + (low \div Pow2(24))
           PL  == low % Pow2(24)
           S   == PH * 8 + (PL \div Pow2(22)) * 2
                    + (IF PL % Pow2(22) # 0 THEN 1 ELSE 0)
       IN FRound((a.s + b.s) % 2, S, a.e + b.e + 21)

\* The float sum: the smaller operand aligned with guard, round and sticky bits.
FAdd(a, b) ==
  IF a.m = 0 THEN b
  ELSE IF b.m = 0 THEN a
  ELSE LET big == IF FMagLe(b, a) THEN a ELSE b
           sml == IF FMagLe(b, a) THEN b ELSE a
           d   == big.e - sml.e
           A   == big.m * 8
           B0  == sml.m * 8
           B   == IF d >= 27 THEN 1
                  ELSE (B0 \div Pow2(d))
                         + (IF B0 % Pow2(d) # 0 /\ (B0 \div Pow2(d)) % 2 = 0
                            THEN 1 ELSE 0)
       IN IF big.s = sml.s
          THEN FRound(big.s, A + B, big.e - 3)
          ELSE FRound(big.s, A - B, big.e - 3)

FSub(a, b) == FAdd(a, FNeg(b))

\* The float quotient by restoring division: after t steps q is
\* floor(a.m * 2^(t-1) / b.m); 27 steps give at least 26 quotient bits, and
\* the remainder left is the sticky bit.
RECURSIVE DivSteps(_, _, _, _)
DivSteps(r, D, q, t) ==
  IF t = 0 THEN <<q, r>>
  ELSE IF r >= D THEN DivSteps(2 * (r - D), D, 2 * q + 1, t - 1)
       ELSE DivSteps(2 * r, D, 2 * q, t - 1)

FDiv(a, b) ==
  IF a.m = 0 THEN FZero
  ELSE LET qr == DivSteps(a.m, b.m, 0, 27)
           S  == qr[1] * 2 + (IF qr[2] # 0 THEN 1 ELSE 0)
       IN FRound((a.s + b.s) % 2, S, a.e - b.e - 27)

(***************************************************************************)
(* The float constants and the libm values the marker builder uses.  SinF  *)
(* and CosF are std::sin and std::cos on float (sinf, cosf, correctly      *)
(* rounded), tabulated at the angles the builder passes them.              *)
(***************************************************************************)
FOne   == F(0, 8388608, -23)                   \* 1.0f
FHalf  == F(0, 8388608, -24)                   \* 0.5f
F055   == F(0, 9227469, -24)                   \* 0.55f = 0x1.19999ap-1
FPi    == F(0, 13176795, -22)                  \* MathConstants<float>::pi
FTwoPi == F(0, 13176795, -21)                  \* MathConstants<float>::twoPi

SinCosTable ==
  <<  \* angle, sinf(angle), cosf(angle)
    <<FZero,               FZero,               FOne>>,
    <<F(0, 10541436, -24), F(0, 9861400, -24),  F(0, 13573053, -24)>>,
    <<F(0, 10541436, -23), F(0, 15956081, -24), F(0, 10368889, -25)>>,
    <<F(0, 13176795, -23), FOne,                F(1, 12303662, -48)>>,
    <<F(0, 15812154, -23), F(0, 15956080, -24), F(1, 10368891, -25)>>,
    <<F(0, 10541436, -22), F(0, 9861399, -24),  F(1, 13573054, -24)>>,
    <<F(0, 13176795, -22), F(1, 12303662, -47), F(1, 8388608, -23)>>,
    <<F(0, 15812154, -22), F(1, 9861402, -24),  F(1, 13573052, -24)>>,
    <<F(0, 9223756, -21),  F(1, 15956080, -24), F(1, 10368893, -25)>>,
    <<F(0, 9882596, -21),  F(1, 8388608, -23),  F(0, 13426222, -50)>>,
    <<F(0, 10541436, -21), F(1, 15956080, -24), F(0, 10368894, -25)>>,
    <<F(0, 11859116, -21), F(1, 9861395, -24),  F(0, 13573057, -24)>> >>

TableRow(angle) ==
  SinCosTable[CHOOSE i \in DOMAIN SinCosTable : SinCosTable[i][1] = angle]

SinF(angle) == TableRow(angle)[2]

CosF(angle) == TableRow(angle)[3]

(***************************************************************************)
(* juce::Path: the sequence of its elements, each with its points.         *)
(***************************************************************************)
Pt(x, y) == [x |-> x, y |-> y]

EmptyPath == << >>

startNewSubPath(p, x, y) == Append(p, [type |-> "move", pts |-> <<Pt(x, y)>>])

lineTo(p, x, y) == Append(p, [type |-> "line", pts |-> <<Pt(x, y)>>])

cubicTo(p, x1, y1, x2, y2, x3, y3) ==
  Append(p, [type |-> "cubic", pts |-> <<Pt(x1, y1), Pt(x2, y2), Pt(x3, y3)>>])

closeSubPath(p) == Append(p, [type |-> "close", pts |-> << >>])

\* Path::isEmpty: a path with no line or curve is empty
isEmpty(p) == \A i \in DOMAIN p : p[i].type \notin {"line", "cubic"}

\* every point of the path, control points included
PathPoints(p) == UNION {{p[i].pts[j] : j \in DOMAIN p[i].pts} : i \in DOMAIN p}

\* Path::addTriangle (a, b, c)
addTriangle(p, a, b, c) ==
  closeSubPath(lineTo(lineTo(startNewSubPath(p, a.x, a.y), b.x, b.y), c.x, c.y))

\* Path::addRectangle (x, y, w, h)
addRectangle(p, x, y, w, h) ==
  LET xr == FAdd(x, w)
      yb == FAdd(y, h)
      x1 == IF FLt(w, FZero) THEN xr ELSE x
      x2 == IF FLt(w, FZero) THEN x ELSE xr
      y1 == IF FLt(h, FZero) THEN yb ELSE y
      y2 == IF FLt(h, FZero) THEN y ELSE yb
  IN closeSubPath(lineTo(lineTo(lineTo(startNewSubPath(p, x1, y2),
                                       x1, y1), x2, y1), x2, y2))

\* Path::addEllipse (Rectangle<float> {x, y, w, h})
addEllipse(p, x, y, w, h) ==
  LET hw   == FMul(w, FHalf)
      hw55 == FMul(hw, F055)
      hh   == FMul(h, FHalf)
      hh55 == FMul(hh, F055)
      cx   == FAdd(x, hw)
      cy   == FAdd(y, hh)
      p0   == startNewSubPath(p, cx, FSub(cy, hh))
      p1   == cubicTo(p0, FAdd(cx, hw55), FSub(cy, hh), FAdd(cx, hw), FSub(cy, hh55),
                      FAdd(cx, hw), cy)
      p2   == cubicTo(p1, FAdd(cx, hw), FAdd(cy, hh55), FAdd(cx, hw55), FAdd(cy, hh),
                      cx, FAdd(cy, hh))
      p3   == cubicTo(p2, FSub(cx, hw55), FAdd(cy, hh), FSub(cx, hw), FAdd(cy, hh55),
                      FSub(cx, hw), cy)
      p4   == cubicTo(p3, FSub(cx, hw), FSub(cy, hh55), FSub(cx, hw55), FSub(cy, hh),
                      cx, FSub(cy, hh))
  IN closeSubPath(p4)

\* Point<float>::getPointOnCircumference (radius, angle)
getPointOnCircumference(c, radius, angle) ==
  Pt(FAdd(c.x, FMul(radius, SinF(angle))), FSub(c.y, FMul(radius, CosF(angle))))

\* Path::addStar (centre, numberOfPoints, innerRadius, outerRadius), startAngle 0
RECURSIVE StarFrom(_, _, _, _, _, _, _)
StarFrom(p, i, n, centre, innerRadius, outerRadius, angleBetweenPoints) ==
  IF i = n THEN closeSubPath(p)
  ELSE LET angle == FAdd(FZero, FMul(IntToFloat(i), angleBetweenPoints))
           o     == getPointOnCircumference(centre, outerRadius, angle)
           q     == getPointOnCircumference(centre, innerRadius,
                      FAdd(angle, FMul(angleBetweenPoints, FHalf)))
           p1    == IF i = 0 THEN startNewSubPath(p, o.x, o.y) ELSE lineTo(p, o.x, o.y)
       IN StarFrom(lineTo(p1, q.x, q.y), i + 1, n, centre, innerRadius, outerRadius,
                   angleBetweenPoints)

addStar(p, centre, numberOfPoints, innerRadius, outerRadius) ==
  IF numberOfPoints > 1
  THEN StarFrom(p, 0, numberOfPoints, centre, innerRadius, outerRadius,
                FDiv(FTwoPi, IntToFloat(numberOfPoints)))
  ELSE p

\* AffineTransform::rotation (angleInRadians, pivotX, pivotY)
rotation(rad, pivotX, pivotY) ==
  LET cosRad == CosF(rad)
      sinRad == SinF(rad)
  IN [mat00 |-> cosRad, mat01 |-> FNeg(sinRad),
      mat02 |-> FAdd(FAdd(FMul(FNeg(cosRad), pivotX), FMul(sinRad, pivotY)), pivotX),
      mat10 |-> sinRad, mat11 |-> cosRad,
      mat12 |-> FAdd(FAdd(FMul(FNeg(sinRad), pivotX), FMul(FNeg(cosRad), pivotY)), pivotY)]

\* AffineTransform::transformPoint (x, y)
transformPoint(t, pt) ==
  Pt(FAdd(FAdd(FMul(t.mat00, pt.x), FMul(t.mat01, pt.y)), t.mat02),
     FAdd(FAdd(FMul(t.mat10, pt.x), FMul(t.mat11, pt.y)), t.mat12))

\* Path::applyTransform (transform)
applyTransform(p, t) ==
  [i \in DOMAIN p |->
     [type |-> p[i].type,
      pts  |-> [j \in DOMAIN p[i].pts |-> transformPoint(t, p[i].pts[j])]]]

(***************************************************************************)
(* Marker (cmp_datamodels.h).  Marker::Type is an enum class over int: its *)
(* enumerators are 0..6 and every other int is a value of the type.        *)
(***************************************************************************)
Circle == 0
Pentagram == 1
Square == 2
UpTriangle == 3
RightTriangle == 4
DownTriangle == 5
LeftTriangle == 6

MarkerTypes == {Circle, Pentagram, Square, UpTriangle, RightTriangle,
                DownTriangle, LeftTriangle}

\* addUpTriangleTo with the triangle spanning length, not length / 2, each way
addUpTriangleToFullLength(len, p) ==
  addTriangle(p, Pt(FZero, FNeg(len)), Pt(FNeg(len), len), Pt(len, len))

\* the lambda addUpTriangleTo of getMarkerPathFrom
addUpTriangleTo(len, p) ==
  addTriangle(p, Pt(FZero, FScale(FNeg(len), -1)),
                 Pt(FScale(FNeg(len), -1), FScale(len, -1)),
                 Pt(FScale(len, -1), FScale(len, -1)))

\* the Right triangle turned by pi, the Down triangle's angle
RightAngleAsDown == FPi

\* the rotation angles of the Right, Down and Left triangle
RightAngle == FScale(FPi, -1)

DownAngle == FPi

LeftAngle == FScale(FMul(FPi, IntToFloat(3)), -1)

\* getMarkerPathFrom whose default branch falls into the UpTriangle case
getMarkerPathFromDefaultUp(mk, len) ==
  CASE mk.type = Circle ->
         addEllipse(EmptyPath, FScale(FNeg(len), -1), FScale(FNeg(len), -1), len, len)
    [] mk.type = Pentagram ->
         addStar(EmptyPath, Pt(FZero, FZero), 5, FScale(len, -2), FScale(len, -1))
    [] mk.type = Square ->
         addRectangle(EmptyPath, FScale(FNeg(len), -1), FScale(FNeg(len), -1), len, len)
    [] mk.type = RightTriangle ->
         applyTransform(addUpTriangleTo(len, EmptyPath), rotation(RightAngle, FZero, FZero))
    [] mk.type = DownTriangle ->
         applyTransform(addUpTriangleTo(len, EmptyPath), rotation(DownAngle, FZero, FZero))
    [] mk.type = LeftTriangle ->
         applyTransform(addUpTriangleTo(len, EmptyPath), rotation(LeftAngle, FZero, FZero))
    [] OTHER -> addUpTriangleTo(len, EmptyPath)

\* Marker::getMarkerPathFrom (marker, length)
getMarkerPathFrom(mk, len) ==
  CASE mk.type = Circle ->
         addEllipse(EmptyPath, FScale(FNeg(len), -1), FScale(FNeg(len), -1), len, len)
    [] mk.type = Pentagram ->
         addStar(EmptyPath, Pt(FZero, FZero), 5, FScale(len, -2), FScale(len, -1))
    [] mk.type = Square ->
         addRectangle(EmptyPath, FScale(FNeg(len), -1), FScale(FNeg(len), -1), len, len)
    [] mk.type = UpTriangle ->
         addUpTriangleTo(len, EmptyPath)
    [] mk.type = RightTriangle ->
         applyTransform(addUpTriangleTo(len, EmptyPath), rotation(RightAngle, FZero, FZero))
    [] mk.type = DownTriangle ->
         applyTransform(addUpTriangleTo(len, EmptyPath), rotation(DownAngle, FZero, FZero))
    [] mk.type = LeftTriangle ->
         applyTransform(addUpTriangleTo(len, EmptyPath), rotation(LeftAngle, FZero, FZero))
    [] OTHER -> EmptyPath

\* the lengths and the marker types the model passes in
Lengths == {IntToFloat(n) : n \in (-MaxLength)..MaxLength}

TypeValues == (-1)..MaxTypeValue

MarkerIdle ==
  /\ marker = [type |-> Circle]
  /\ length = FZero
  /\ path = EmptyPath
  /\ called = FALSE

InitMarker ==
  /\ unit = "marker"
  /\ marker \in [type : TypeValues]
  /\ length \in Lengths
  /\ path = EmptyPath
  /\ called = FALSE

\* a call path = Marker::getMarkerPathFrom(marker, length): the marker is
\* passed by value and the function is static
GetMarkerPathFrom ==
  /\ unit = "marker"
  /\ ~called
  /\ path' = getMarkerPathFrom(marker, length)
  /\ called' = TRUE
  /\ UNCHANGED <<unit, marker, length, limVars, viewVars, labelVars, iotaVars>>

NextMarker == GetMarkerPathFrom

(***************************************************************************)
(* Lim<ValueType> (cmp_datamodels.h), ValueType a signed integer of Bits   *)
(* bits.  Integer division truncates toward zero; dividing by zero and     *)
(* dividing the least value by -1 are undefined.                           *)
(***************************************************************************)
ValMin == -Pow2(Bits - 1)

ValMax == Pow2(Bits - 1) - 1

Val == ValMin..ValMax

Lims == [min : Val, max : Val]

\* Lim (new_min, new_max): the only constructor the struct declares
LimCtor(new_min, new_max) == [min |-> new_min, max |-> new_max]

\* the parameter counts of the constructors Lim declares
LimCtorArities == {2}

\* Lim<ValueType> new_lim; needs a constructor callable with no argument
DefaultConstructible == 0 \in LimCtorArities

Abs(a) == IF a < 0 THEN -a ELSE a

IntDivDefined(a, v) == v # 0 /\ ~(a = ValMin /\ v = -1)

\* a / v of the built-in integer type
IntDiv(a, v) ==
  IF (a >= 0) = (v > 0) THEN Abs(a) \div Abs(v) ELSE -(Abs(a) \div Abs(v))

\* What an operation produced: kind is
\*   "self"       a reference to l itself
\*   "value"      a Lim value, in field lim
\*   "bool"       a bool, in field b
\*   "undefined"  the operation had undefined behaviour
\*   "ill_formed" the operation's instantiation does not compile
NoLim == [min |-> 0, max |-> 0]

Produced(kind, l, b) == [kind |-> kind, lim |-> l, b |-> b]

Operation(op, l, v, rhs) == [op |-> op, l |-> l, v |-> v, rhs |-> rhs]

\* Lim::operator/= (val): the values l may hold afterwards
DivAssignResults(l, val) ==
  IF IntDivDefined(l.min, val) /\ IntDivDefined(l.max, val)
  THEN {[kind |-> "self", l |-> [min |-> IntDiv(l.min, val), max |-> IntDiv(l.max, val)]]}
  ELSE {[kind |-> "undefined", l |-> x] : x \in Lims}

\* operator/ (rhs, val): new_lim is default-initialised, then assigned to
DivResult(rhs, val) ==
  IF ~DefaultConstructible THEN Produced("ill_formed", NoLim, FALSE)
  ELSE IF IntDivDefined(rhs.min, val) /\ IntDivDefined(rhs.max, val)
  THEN Produced("value", [min |-> IntDiv(rhs.min, val), max |-> IntDiv(rhs.max, val)], FALSE)
  ELSE Produced("undefined", NoLim, FALSE)

\* Lim::operator== (rhs)
LimEq(l, rhs) == l.min = rhs.min /\ l.max = rhs.max

\* Lim::operator!= (rhs)
LimNe(l, rhs) == l.min # rhs.min \/ l.max # rhs.max

\* operator bool with && for ||
LimBoolAnd(l) == l.max # 0 /\ l.min # 0

\* Lim::operator bool
LimBool(l) == l.max # 0 \/ l.min # 0

\* isMinOrMaxZero with && for ||
LimIsMinAndMaxZero(l) == l.max = 0 /\ l.min = 0

\* Lim::isMinOrMaxZero
LimIsMinOrMaxZero(l) == l.max = 0 \/ l.min = 0

\* the right-hand sides the model compares l with and assigns to it
RhsOf(l) == {l, [min |-> l.max, max |-> l.min], [min |-> l.min, max |-> 0],
             [min |-> 0, max |-> l.max]}

\* the program goes on after an operation that compiled and was defined
LimRunning == unit = "lim" /\ res.kind \notin {"undefined", "ill_formed"}

LimIdle ==
  /\ lim = NoLim
  /\ arg = Operation("construct", NoLim, 0, NoLim)
  /\ res = Produced("self", NoLim, FALSE)

\* Lim<ValueType> l (new_min, new_max)
InitLim ==
  /\ unit = "lim"
  /\ \E a \in Val, b \in Val :
       /\ lim = LimCtor(a, b)
       /\ arg = Operation("construct", lim, 0, lim)
       /\ res = Produced("self", lim, FALSE)

OtherThanLim == <<unit, markerVars, viewVars, labelVars, iotaVars>>

\* l /= val
OperatorDivAssign ==
  /\ LimRunning
  /\ \E val \in Val : \E r \in DivAssignResults(lim, val) :
       /\ lim' = r.l
       /\ arg' = Operation("div_assign", lim, val, NoLim)
       /\ res' = Produced(r.kind, r.l, FALSE)
  /\ UNCHANGED OtherThanLim

\* l / val
OperatorDiv ==
  /\ LimRunning
  /\ \E val \in Val :
       /\ arg' = Operation("div", lim, val, NoLim)
       /\ res' = DivResult(lim, val)
  /\ UNCHANGED <<lim, OtherThanLim>>

\* l = rhs
OperatorAssign ==
  /\ LimRunning
  /\ \E rhs \in RhsOf(lim) :
       /\ lim' = [min |-> rhs.min, max |-> rhs.max]
       /\ arg' = Operation("assign", lim, 0, rhs)
       /\ res' = Produced("self", lim', FALSE)
  /\ UNCHANGED OtherThanLim

\* l == rhs
OperatorEq ==
  /\ LimRunning
  /\ \E rhs \in RhsOf(lim) :
       /\ arg' = Operation("eq", lim, 0, rhs)
       /\ res' = Produced("bool", NoLim, LimEq(lim, rhs))
  /\ UNCHANGED <<lim, OtherThanLim>>

\* l != rhs
OperatorNe ==
  /\ LimRunning
  /\ \E rhs \in RhsOf(lim) :
       /\ arg' = Operation("ne", lim, 0, rhs)
       /\ res' = Produced("bool", NoLim, LimNe(lim, rhs))
  /\ UNCHANGED <<lim, OtherThanLim>>

\* static_cast<bool>(l)
OperatorBool ==
  /\ LimRunning
  /\ arg' = Operation("bool", lim, 0, NoLim)
  /\ res' = Produced("bool", NoLim, LimBool(lim))
  /\ UNCHANGED <<lim, OtherThanLim>>

\* l.isMinOrMaxZero()
IsMinOrMaxZero ==
  /\ LimRunning
  /\ arg' = Operation("isMinOrMaxZero", lim, 0, NoLim)
  /\ res' = Produced("bool", NoLim, LimIsMinOrMaxZero(lim))
  /\ UNCHANGED <<lim, OtherThanLim>>

NextLim ==
  \/ OperatorDivAssign
  \/ OperatorDiv
  \/ OperatorAssign
  \/ OperatorEq
  \/ OperatorNe
  \/ OperatorBool
  \/ IsMinOrMaxZero

(***************************************************************************)
(* CommonPlotParameterView (cmp_datamodels.h): two constructors of six     *)
(* parameters, the first taking each by const T&, the second, deleted,     *)
(* taking each by const T&&.  An argument is an lvalue naming an object of *)
(* the caller, or an rvalue: a temporary that lives to the end of the full *)
(* expression that constructs the view.                                    *)
(***************************************************************************)
NbArgs == 6

Args == 1..NbArgs

Categories == {"lvalue", "rvalue"}

\* const T& binds to an lvalue and to an rvalue
BindsConstLvalueRef(cat) == cat \in Categories

\* const T&& binds to an rvalue only
BindsConstRvalueRef(cat) == cat = "rvalue"

\* the constructor taking six const T& is viable
RefCtorViable(c) == \A i \in Args : BindsConstLvalueRef(c[i])

\* the deleted constructor taking six const T&& is viable
DeletedCtorViable(c) == \A i \in Args : BindsConstRvalueRef(c[i])

\* Overload resolution: where both are viable every argument is an rvalue,
\* and binding an rvalue reference to it is the better conversion.
SelectedCtor(c) ==
  IF DeletedCtorViable(c) THEN "deleted"
  ELSE IF RefCtorViable(c) THEN "refs"
  ELSE "none"

ViewIdle ==
  /\ cats = [i \in Args |-> "lvalue"]
  /\ alive = [i \in Args |-> TRUE]
  /\ vstate = "start"

InitView ==
  /\ unit = "view"
  /\ cats \in [Args -> Categories]
  /\ alive = [i \in Args |-> TRUE]
  /\ vstate = "start"

OtherThanView == <<unit, markerVars, limVars, labelVars, iotaVars>>

\* CommonPlotParameterView view (a1, ..., a6): rejected when the selected
\* constructor is deleted, else the view's six references are bound
ConstructView ==
  /\ unit = "view"
  /\ vstate = "start"
  /\ vstate' = IF SelectedCtor(cats) = "refs" THEN "constructed" ELSE "rejected"
  /\ UNCHANGED <<cats, alive, OtherThanView>>

\* the end of the full expression: its temporaries are destroyed
EndFullExpression ==
  /\ unit = "view"
  /\ vstate = "constructed"
  /\ alive' = [i \in Args |-> cats[i] = "lvalue"]
  /\ vstate' = "expr_ended"
  /\ UNCHANGED <<cats, OtherThanView>>

\* rendering or interaction logic reads the parameters through the view
ReadView ==
  /\ unit = "view"
  /\ vstate = "expr_ended"
  /\ vstate' = "read"
  /\ UNCHANGED <<cats, alive, OtherThanView>>

NextView == ConstructView \/ EndFullExpression \/ ReadView

(***************************************************************************)
(* PlotLabel (spl_label.h declares it; its member functions are defined    *)
(* elsewhere and are modelled from the specification).  A text is 0 (the   *)
(* empty string) or one of 1..MaxText.                                     *)
(***************************************************************************)
Texts == 0..MaxText

NotPainted == -1

NotSet == -1

LabelNames == {"x", "y", "title"}

\* every setter writing m_x_label
SetTextOfX(ls, which, text) == [ls EXCEPT !["x"] = text]

\* juce::Label::setText on one of the three labels
SetText(ls, which, text) == [ls EXCEPT ![which] = text]

LabelIdle ==
  /\ labels = [l \in LabelNames |-> 0]
  /\ shown = [l \in LabelNames |-> NotPainted]
  /\ m_lookandfeel = FALSE
  /\ laid_out = FALSE
  /\ last_x = NotSet
  /\ painted = FALSE

\* PlotLabel()
InitLabel == unit = "label" /\ LabelIdle

OtherThanLabel == <<unit, markerVars, limVars, viewVars, iotaVars>>

\* setXLabel (x_label): replaces the text, triggers the layout
SetXLabel ==
  /\ unit = "label"
  /\ \E t \in Texts :
       /\ labels' = SetText(labels, "x", t)
       /\ last_x' = t
  /\ painted' = FALSE
  /\ laid_out' = TRUE
  /\ UNCHANGED <<shown, m_lookandfeel, OtherThanLabel>>

\* setYLabel (y_label)
SetYLabel ==
  /\ unit = "label"
  /\ \E t \in Texts : labels' = SetText(labels, "y", t)
  /\ laid_out' = TRUE
  /\ UNCHANGED <<shown, m_lookandfeel, last_x, painted, OtherThanLabel>>

\* setTitle (title_label)
SetTitle ==
  /\ unit = "label"
  /\ \E t \in Texts : labels' = SetText(labels, "title", t)
  /\ laid_out' = TRUE
  /\ UNCHANGED <<shown, m_lookandfeel, last_x, painted, OtherThanLabel>>

\* resized(): recomputes the labels' positions
Resized ==
  /\ unit = "label"
  /\ laid_out' = TRUE
  /\ UNCHANGED <<labels, shown, m_lookandfeel, last_x, painted, OtherThanLabel>>

\* a paint cycle: paint (g), then each label draws its text
Paint ==
  /\ unit = "label"
  /\ shown' = labels
  /\ painted' = TRUE
  /\ UNCHANGED <<labels, m_lookandfeel, laid_out, last_x, OtherThanLabel>>

\* lookAndFeelChanged(): fetches the theme and applies it to the labels
LookAndFeelChanged ==
  /\ unit = "label"
  /\ m_lookandfeel' = TRUE
  /\ UNCHANGED <<labels, shown, laid_out, last_x, painted, OtherThanLabel>>

NextLabel ==
  \/ SetXLabel
  \/ SetYLabel
  \/ SetTitle
  \/ Resized
  \/ Paint
  \/ LookAndFeelChanged

(***************************************************************************)
(* iota_delta (cmp_datamodels.h), ValueType an unsigned integer of Bits    *)
(* bits.  The range [first, last) is cells 1..n of mem; cells 0 and        *)
(* n+1..MaxN+1 lie outside it.  inp.f = 0 is the overload without f.       *)
(***************************************************************************)
IotaMod == Pow2(Bits)

IotaVal == 0..(IotaMod - 1)

Untouched == -1

Cells == 0..(MaxN + 1)

Fs == {1, 2}

\* the caller's f: 1 squares its argument, 2 complements it
ApplyF(f, x) == IF f = 1 THEN (x * x) % IotaMod ELSE IotaMod - 1 - x

\* the iterator last
Last == 1 + inp.n

IotaIdle ==
  /\ inp = [n |-> 0, x0 |-> 0, dx |-> 0, f |-> 0]
  /\ mem = [c \in Cells |-> Untouched]
  /\ first = 1
  /\ x0 = 0
  /\ calls = << >>
  /\ ipc = "loop"

\* the call iota_delta (first, last, x0, dx [, f])
InitIota ==
  /\ unit = "iota"
  /\ inp \in [n : 0..MaxN, x0 : IotaVal, dx : IotaVal, f : {0} \cup Fs]
  /\ mem = [c \in Cells |-> Untouched]
  /\ first = 1
  /\ x0 = inp.x0
  /\ calls = << >>
  /\ ipc = "loop"

OtherThanIota == <<unit, markerVars, limVars, viewVars, labelVars>>

\* the iteration with x0 += dx before the store
IotaDeltaStepLate ==
  /\ unit = "iota" /\ ipc = "loop" /\ inp.f = 0
  /\ first # Last
  /\ mem' = [mem EXCEPT ![first] = (x0 + inp.dx) % IotaMod]
  /\ first' = first + 1
  /\ x0' = (x0 + inp.dx) % IotaMod
  /\ UNCHANGED <<inp, calls, ipc, OtherThanIota>>

\* one iteration of while (first != last) { *first++ = x0; x0 += dx; }
IotaDeltaStep ==
  /\ unit = "iota" /\ ipc = "loop" /\ inp.f = 0
  /\ first # Last
  /\ mem' = [mem EXCEPT ![first] = x0]
  /\ first' = first + 1
  /\ x0' = (x0 + inp.dx) % IotaMod
  /\ UNCHANGED <<inp, calls, ipc, OtherThanIota>>

\* one iteration of while (first != last) { *first++ = f(x0); x0 += dx; }
IotaDeltaFStep ==
  /\ unit = "iota" /\ ipc = "loop" /\ inp.f # 0
  /\ first # Last
  /\ calls' = Append(calls, x0)
  /\ mem' = [mem EXCEPT ![first] = ApplyF(inp.f, x0)]
  /\ first' = first + 1
  /\ x0' = (x0 + inp.dx) % IotaMod
  /\ UNCHANGED <<inp, ipc, OtherThanIota>>

\* first == last: the loop ends and the function returns
IotaDeltaReturn ==
  /\ unit = "iota" /\ ipc = "loop"
  /\ first = Last
  /\ ipc' = "done"
  /\ UNCHANGED <<mem, first, x0, inp, calls, OtherThanIota>>

NextIota == IotaDeltaStep \/ IotaDeltaFStep \/ IotaDeltaReturn

(***************************************************************************)
(* The specifications: one per component, and their union.                 *)
(***************************************************************************)
InitMarkerOnly == InitMarker /\ LimIdle /\ ViewIdle /\ LabelIdle /\ IotaIdle

InitLimOnly == InitLim /\ MarkerIdle /\ ViewIdle /\ LabelIdle /\ IotaIdle

InitViewOnly == InitView /\ MarkerIdle /\ LimIdle /\ LabelIdle /\ IotaIdle

InitLabelOnly == InitLabel /\ MarkerIdle /\ LimIdle /\ ViewIdle /\ IotaIdle

InitIotaOnly == InitIota /\ MarkerIdle /\ LimIdle /\ ViewIdle /\ LabelIdle

SpecMarker == InitMarkerOnly /\ [][NextMarker]_vars

SpecLim == InitLimOnly /\ [][NextLim]_vars

SpecView == InitViewOnly /\ [][NextView]_vars

SpecLabel == InitLabelOnly /\ [][NextLabel]_vars

\* iota_delta runs on one thread with nothing to wait for: its loop goes on
SpecIota == InitIotaOnly /\ [][NextIota]_vars /\ WF_vars(NextIota)

Init ==
  \/ InitMarkerOnly
  \/ InitLimOnly
  \/ InitViewOnly
  \/ InitLabelOnly
  \/ InitIotaOnly

Next == NextMarker \/ NextLim \/ NextView \/ NextLabel \/ NextIota

Spec == Init /\ [][Next]_vars

(***************************************************************************)
(* Marker::getMarkerPathFrom: the properties checked under SpecMarker.     *)
(***************************************************************************)
HalfLength == FScale(length, -1)

RotatedTypes == {RightTriangle, DownTriangle, LeftTriangle}

\* c lies in [-length/2, length/2]
InBox(c) == FLe(FNeg(HalfLength), c) /\ FLe(c, HalfLength)

\* the float after a (a >= 0): a plus one unit in its last place
NextUp(a) ==
  IF a.m = 0 THEN a
  ELSE IF a.m = Pow2(MantBits) - 1 THEN F(0, Pow2(MantBits - 1), a.e + 1)
  ELSE F(0, a.m + 1, a.e)

\* C1 as stated: for every recognized type and every length the returned
\* path is non-empty and each coordinate of each of its points lies in
\* [-length/2, length/2].
C1_InBoxExactly ==
  (called /\ marker.type \in MarkerTypes) =>
    /\ ~isEmpty(path)
    /\ \A pt \in PathPoints(path) : InBox(pt.x) /\ InBox(pt.y)

\* C1 amended: for every recognized type and every length the returned path
\* is non-empty; for Circle, Pentagram, Square and UpTriangle the magnitude
\* of each coordinate is at most |length|/2, and for the three rotated
\* triangles it is at most |length|/2 plus one unit in its last place.
C1_InBoxWithinOneUlp ==
  (called /\ marker.type \in MarkerTypes) =>
    /\ ~isEmpty(path)
    /\ LET bound == IF marker.type \in RotatedTypes
                    THEN NextUp(FAbs(HalfLength)) ELSE FAbs(HalfLength)
       IN \A pt \in PathPoints(path) : FMagLe(pt.x, bound) /\ FMagLe(pt.y, bound)

\* a rotated triangle of positive length with a vertex beyond length/2
C1_Witness ==
  /\ called
  /\ marker.type \in RotatedTypes
  /\ FLt(FZero, length)
  /\ \E pt \in PathPoints(path) : ~FMagLe(pt.x, HalfLength)

\* a point turned about the origin by k quarter turns, exactly
RotateExact(pt, k) ==
  CASE k = 0 -> pt
    [] k = 1 -> Pt(FNeg(pt.y), pt.x)
    [] k = 2 -> Pt(FNeg(pt.x), FNeg(pt.y))
    [] k = 3 -> Pt(pt.y, FNeg(pt.x))

QuarterTurns(type) ==
  CASE type = RightTriangle -> 1
    [] type = DownTriangle -> 2
    [] type = LeftTriangle -> 3
    [] OTHER -> 0

\* the path the claim names: the up triangle of vertices (0, -length/2),
\* (-length/2, length/2), (length/2, length/2), turned by k quarter turns
TurnedUpTriangle(k) ==
  LET a == RotateExact(Pt(FZero, FNeg(HalfLength)), k)
      b == RotateExact(Pt(FNeg(HalfLength), HalfLength), k)
      c == RotateExact(Pt(HalfLength, HalfLength), k)
  IN << [type |-> "move", pts |-> <<a>>], [type |-> "line", pts |-> <<b>>],
        [type |-> "line", pts |-> <<c>>], [type |-> "close", pts |-> << >>] >>

TriangleTypes == RotatedTypes \cup {UpTriangle}

\* C2 as stated: the path returned for UpTriangle has the vertices named,
\* and the paths returned for the Right, Down and Left triangle equal it
\* turned by 90, 180 and 270 degrees, vertex for vertex.
C2_RotationExact ==
  (called /\ marker.type \in TriangleTypes) =>
    path = TurnedUpTriangle(QuarterTurns(marker.type))

\* |a - b| <= |length| * 2^-24
Near(a, b) == FMagLe(FSub(a, b), FScale(length, -24))

\* C2 amended: the paths returned for the Right, Down and Left triangle have
\* the elements of the UpTriangle path turned by 90, 180 and 270 degrees, in
\* the same order, each coordinate within |length| * 2^-24 of the turned one;
\* the UpTriangle path has exactly the vertices named.
C2_RotationWithinTolerance ==
  (called /\ marker.type \in TriangleTypes) =>
    LET want == TurnedUpTriangle(QuarterTurns(marker.type)) IN
    /\ Len(path) = Len(want)
    /\ \A i \in DOMAIN want :
         /\ path[i].type = want[i].type
         /\ Len(path[i].pts) = Len(want[i].pts)
         /\ \A j \in DOMAIN want[i].pts :
              /\ Near(path[i].pts[j].x, want[i].pts[j].x)
              /\ Near(path[i].pts[j].y, want[i].pts[j].y)
    /\ marker.type = UpTriangle => path = want

\* a rotated triangle returned that is not the exactly turned up triangle
C2_Witness ==
  /\ called
  /\ marker.type = RightTriangle
  /\ length = IntToFloat(3)
  /\ path # TurnedUpTriangle(1)
  /\ path = applyTransform(getMarkerPathFrom([type |-> UpTriangle], length),
                           rotation(FScale(FPi, -1), FZero, FZero))

\* C7: for a type that is none of the seven the returned path is the empty
\* path, and a call changes only what it returns: the marker, the length and
\* all other state stay as they were.
C7_UnrecognizedIsEmpty ==
  /\ []((called /\ marker.type \notin MarkerTypes) => (path = EmptyPath /\ isEmpty(path)))
  /\ [][/\ marker' = marker
        /\ length' = length
        /\ UNCHANGED <<unit, limVars, viewVars, labelVars, iotaVars>>]_vars

C7_Witness == called /\ marker.type \notin MarkerTypes /\ path = EmptyPath

(***************************************************************************)
(* Lim: the properties checked under SpecLim.                              *)
(***************************************************************************)
\* C3: the conversion of l to bool is false exactly when l.min and l.max are
\* both zero.
C3_BoolFalseIffBothZero ==
  arg.op = "bool" =>
    /\ res.kind = "bool"
    /\ (res.b = FALSE) <=> (arg.l.min = 0 /\ arg.l.max = 0)

C3_Witness == arg.op = "bool" /\ res.kind = "bool" /\ res.b = FALSE /\ lim = NoLim

\* C4: l.isMinOrMaxZero() is true exactly when l.min or l.max is zero, and
\* the call leaves l as it was.
C4_IsMinOrMaxZero ==
  arg.op = "isMinOrMaxZero" =>
    /\ res.kind = "bool"
    /\ res.b <=> (arg.l.min = 0 \/ arg.l.max = 0)
    /\ lim = arg.l

C4_Witness ==
  /\ arg.op = "isMinOrMaxZero"
  /\ res.b
  /\ lim.min = 0
  /\ lim.max # 0

Quotient(l, v) == [min |-> IntDiv(l.min, v), max |-> IntDiv(l.max, v)]

\* l.min / v and l.max / v exist: v is not zero and neither quotient overflows
QuotientDefined(l, v) == IntDivDefined(l.min, v) /\ IntDivDefined(l.max, v)

\* C5: for a divisor v other than zero, l / v returns the Lim of l.min / v
\* and l.max / v and leaves l as it was, and l /= v stores that same Lim in
\* l and returns l.
C5_DivisionForms ==
  /\ (arg.op = "div" /\ QuotientDefined(arg.l, arg.v)) =>
       res.kind = "value" /\ res.lim = Quotient(arg.l, arg.v) /\ lim = arg.l
  /\ (arg.op = "div_assign" /\ QuotientDefined(arg.l, arg.v)) =>
       res.kind = "self" /\ lim = Quotient(arg.l, arg.v)

\* C9: every operation of Lim produces a defined result for every value of
\* min and max and every divisor.
C9_OperationsTotal == res.kind \in {"self", "value", "bool"}

(***************************************************************************)
(* CommonPlotParameterView: the property checked under SpecView.           *)
(***************************************************************************)
\* C6: a construction with at least one rvalue argument is rejected, and no
\* constructed view refers to an object that has been destroyed.
C6_RvalueRejected ==
  /\ (vstate # "start" /\ \E i \in Args : cats[i] = "rvalue") => vstate = "rejected"
  /\ vstate \in {"constructed", "expr_ended", "read"} => \A i \in Args : alive[i]

(***************************************************************************)
(* PlotLabel: the property checked under SpecLabel.                        *)
(***************************************************************************)
\* C8: once a paint cycle has run after setXLabel(t), the x label shown is
\* t, whatever resized, paint, lookAndFeelChanged, setYLabel and setTitle
\* calls came in between or come later, until the next setXLabel.
C8_XLabelShown ==
  /\ last_x # NotSet => labels["x"] = last_x
  /\ (last_x # NotSet /\ painted) => shown["x"] = last_x

C8_Witness ==
  /\ painted
  /\ last_x = MaxText
  /\ shown["x"] = MaxText
  /\ shown["y"] # MaxText
  /\ labels["title"] # shown["title"]
  /\ m_lookandfeel
  /\ laid_out

(***************************************************************************)
(* iota_delta: the property checked under SpecIota.                        *)
(***************************************************************************)
\* x0 increased i times by dx
Accumulated(i) == (inp.x0 + i * inp.dx) % IotaMod

\* C10: the call returns; when it has, exactly the n cells of the range
\* are written, cell i with x0 increased i times by dx, or with f of that,
\* f having been called once per cell in index order; no cell outside the
\* range is ever written.
C10_IotaDelta ==
  /\ <>(ipc = "done")
  /\ [](ipc = "done" =>
         /\ first = Last
         /\ \A i \in 0..(inp.n - 1) :
              mem[1 + i] = IF inp.f = 0 THEN Accumulated(i)
                           ELSE ApplyF(inp.f, Accumulated(i))
         /\ Cardinality({c \in Cells : mem[c] # Untouched}) = inp.n
         /\ calls = IF inp.f = 0 THEN << >>
                    ELSE [i \in 1..inp.n |-> Accumulated(i - 1)])
  /\ [](\A c \in Cells : (c < 1 \/ c > inp.n) => mem[c] = Untouched)

C10_Witness ==
  /\ ipc = "done"
  /\ inp.n = MaxN
  /\ inp.dx # 0
  /\ inp.f # 0
  /\ Len(calls) = MaxN

=============================================================================
